---------------------------- MODULE Spec2Model ----------------------------
(* Verification model of the portfolio site:                               *)
(*   - the article detail route  src/app/articles/[id]/page.tsx            *)
(*   - the Header navigation and the TimeDisplay clock                     *)
(* Strings that the code parses, compares or concatenates (ids, paths)     *)
(* are sequences of one-character strings; strings the code only passes    *)
(* through (titles, dates, file contents) are TLA+ strings.                *)
EXTENDS Integers, Sequences, FiniteSets

VARIABLES
    fs,         \* the file system: path -> file state
    req,        \* the in-flight ArticleDetail requests: slot -> request state
    pathname,   \* what usePathname() returns to the Header
    nav,        \* the ToggleButtons the Header rendered last
    clock,      \* the TimeDisplay instances: props, state and effect closure
    timers,     \* the active intervals of the page: id -> callback closure,
                \* whether it is due, and how often it has fired
    nextTimerId,\* the id the next setInterval returns
    now,        \* the wall clock (new Date()), in ms from the start instant
    articles,     \* the content module's articles object at run time
    listPage,   \* what the article list page rendered last
    staticParams, \* what generateStaticParams returned last
    pageMetadata, \* what generateMetadata returned last, and for which id
    opened,     \* the window.open calls of the contact panel, with their events
    routeConfig,\* the routes object of resources/config the Header reads
    star,       \* the StarComponent of the sample: props, state, events, callbacks
    rating,     \* the StarComponent with requests: props, state, requests in flight
    debounced   \* a function made by debounce: its timeout, the clock, the calls

detailVars == <<fs, req>>
headerVars == <<pathname, nav, clock, timers, nextTimerId, now>>
siteVars == <<articles, listPage, staticParams, pageMetadata, opened>>
configVars == <<routeConfig>>
widgetVars == <<star, rating, debounced>>
vars == <<fs, req, pathname, nav, clock, timers, nextTimerId, now,
          articles, listPage, staticParams, pageMetadata, opened,
          routeConfig, star, rating, debounced>>

-----------------------------------------------------------------------------
(* Bounds of the model.                                                    *)

\* number of request slots that can be in flight at the same time
MaxRequests == 2

Requests == 1..MaxRequests

-----------------------------------------------------------------------------
(* The content module: articles.data                                      *)

\* a metadata list whose third record repeats the id of the second
articles_data_DuplicateId ==
    << [ id |-> 0, title |-> "Building Scalable React Applications",
         description |-> "d0", date |-> "May 15, 2024",
         image |-> "/images/articles/img1.jpg", link |-> "/articles/0",
         tags |-> <<"React", "Architecture", "Performance">> ],
       [ id |-> 1, title |-> "System Design: Designing the StarWidget",
         description |-> "d1", date |-> "April 29, 2025",
         image |-> "/images/articles/img2.jpg", link |-> "/articles/1",
         tags |-> <<"System Design">> ],
       [ id |-> 1, title |-> "Behavioral Interview Questions",
         description |-> "d2", date |-> "May 1, 2025",
         image |-> "/images/articles/img3.jpg", link |-> "/articles/2",
         tags |-> <<"Behavioral Interview", "Frontend Interview">> ] >>

articles_data ==
    << [ id |-> 0,
         title |-> "Building Scalable React Applications",
         description |->
           "Learn how to architect large-scale React applications with best practices for state management, component organization, and performance optimization. This article covers advanced patterns and techniques for building maintainable React codebases.",
         date |-> "May 15, 2024",
         image |-> "/images/articles/img1.jpg",
         link |-> "/articles/0",
         tags |-> <<"React", "Architecture", "Performance">> ],
       [ id |-> 1,
         title |-> "System Design: Designing the StarWidget",
         description |->
           "A comprehensive guide to migrating your Vue 2 application to Next.js, including strategies for handling state, routing, and server-side rendering. Learn how to plan and execute a phased migration while maintaining application functionality.",
         date |-> "April 29, 2025",
         image |-> "/images/articles/img2.jpg",
         link |-> "/articles/1",
         tags |-> <<"System Design">> ],
       [ id |-> 2,
         title |-> "Behavioral Interview Questions",
         description |->
           "A collection of behavioral interview questions that are commonly asked in technical interviews. Learn how to prepare for these questions and answer them confidently.",
         date |-> "May 1, 2025",
         image |-> "/images/articles/img3.jpg",
         link |-> "/articles/2",
         tags |-> <<"Behavioral Interview", "Frontend Interview">> ] >>

\* const articles = { label, title, description, data }
content_articles ==
    [ label |-> "Articles",
      title |-> "Tech Articles",
      description |->
        "A collection of technical articles, tutorials and insights about web development, architecture design and software engineering",
      data |-> articles_data ]

\* the value of a failed Array.prototype.find
Undefined == [ undefined |-> TRUE ]

-----------------------------------------------------------------------------
(* Number.prototype.toString(): the decimal string of a non-negative      *)
(* integer, most significant digit first.                                 *)

Digit(d) ==
    CASE d = 0 -> "0" [] d = 1 -> "1" [] d = 2 -> "2" [] d = 3 -> "3"
      [] d = 4 -> "4" [] d = 5 -> "5" [] d = 6 -> "6" [] d = 7 -> "7"
      [] d = 8 -> "8" [] d = 9 -> "9"

RECURSIVE toString(_)
toString(n) ==
    IF n < 10 THEN << Digit(n) >>
    ELSE toString(n \div 10) \o << Digit(n % 10) >>

-----------------------------------------------------------------------------
(* path.join: concatenate with "/" and normalise "." and ".." segments.   *)

RECURSIVE SplitFrom(_, _, _, _)
SplitFrom(s, i, cur, acc) ==
    IF i > Len(s) THEN Append(acc, cur)
    ELSE IF s[i] = "/" THEN SplitFrom(s, i + 1, << >>, Append(acc, cur))
    ELSE SplitFrom(s, i + 1, Append(cur, s[i]), acc)

\* the segments of a path, split at "/"
Split(s) == SplitFrom(s, 1, << >>, << >>)

RECURSIVE NormalizeFrom(_, _, _)
NormalizeFrom(segs, i, out) ==
    IF i > Len(segs) THEN out
    ELSE IF segs[i] = << >> \/ segs[i] = << "." >>
         THEN NormalizeFrom(segs, i + 1, out)
    ELSE IF segs[i] = << ".", "." >>
         THEN NormalizeFrom(segs, i + 1,
                            IF Len(out) > 0 THEN SubSeq(out, 1, Len(out) - 1) ELSE out)
    ELSE NormalizeFrom(segs, i + 1, Append(out, segs[i]))

RECURSIVE JoinSegs(_, _)
JoinSegs(segs, i) ==
    IF i > Len(segs) THEN << >>
    ELSE << "/" >> \o segs[i] \o JoinSegs(segs, i + 1)

\* path.join(a, b) for an absolute a
PathJoin(a, b) ==
    LET segs == NormalizeFrom(Split(a \o << "/" >> \o b), 1, << >>)
    IN  IF Len(segs) = 0 THEN << "/" >> ELSE JoinSegs(segs, 1)

\* process.cwd()
Cwd == << "/", "a", "p", "p" >>

\* "public/articles"
ArticlesDirName ==
    << "p", "u", "b", "l", "i", "c", "/", "a", "r", "t", "i", "c", "l", "e", "s" >>

\* ".md"
MdExt == << ".", "m", "d" >>

\* const mdDir = path.join(process.cwd(), "public/articles")
mdDir == PathJoin(Cwd, ArticlesDirName)

\* const filePath = path.join(mdDir, `${params.id}.md`)
FilePath(id) == PathJoin(mdDir, id \o MdExt)

-----------------------------------------------------------------------------
(* The file system and fs.readFile.                                       *)

\* the literal of the catch branch
Fallback == "File cannot be used"

\* contents a markdown file can have: empty, a heading, and a file whose text
\* happens to be the fallback literal
Contents == { "", "# Hello", Fallback }

Missing == [ kind |-> "missing" ]
Unreadable == [ kind |-> "unreadable" ]
File(c) == [ kind |-> "file", data |-> c ]

FileStates == { Missing, Unreadable } \cup { File(c) : c \in Contents }

\* the files whose state the environment can change; every other path is missing
TrackedPaths == { FilePath(toString(0)), FilePath(toString(1)) }

\* a read that returns what another request in flight got for the same path
ReadFile_Cached(fsys, path) ==
    IF \E r \in Requests : req[r].pc = "rendered" /\ req[r].reads = << path >>
        THEN req[CHOOSE r \in Requests :
                    req[r].pc = "rendered" /\ req[r].reads = << path >>].result
    ELSE IF path \notin DOMAIN fsys \/ fsys[path].kind = "missing"
        THEN [ ok |-> FALSE, err |-> "ENOENT" ]
    ELSE IF fsys[path].kind = "unreadable"
        THEN [ ok |-> FALSE, err |-> "EACCES" ]
    ELSE [ ok |-> TRUE, data |-> fsys[path].data ]

\* fs.readFile(path, "utf-8"): the settled promise
ReadFile(fsys, path) ==
    IF path \notin DOMAIN fsys \/ fsys[path].kind = "missing"
        THEN [ ok |-> FALSE, err |-> "ENOENT" ]
    ELSE IF fsys[path].kind = "unreadable"
        THEN [ ok |-> FALSE, err |-> "EACCES" ]
    ELSE [ ok |-> TRUE, data |-> fsys[path].data ]

-----------------------------------------------------------------------------
(* ArticleDetail                                                          *)

\* the id strings a request can carry
RequestIds ==
    { << "0" >>, << "1" >>, << "2" >>,
      << "9", "9", "9" >>,
      << "0", "0" >>,
      << >>,
      << "0", ".", "m", "d" >>,
      << "1", "/", ".", ".", "/", "0" >>,
      << ".", ".", "/", "x" >> }

RECURSIVE FindFrom(_, _, _)
FindFrom(data, id, i) ==
    IF i > Len(data) THEN Undefined
    ELSE IF toString(data[i].id) = id THEN data[i]
    ELSE FindFrom(data, id, i + 1)

\* the value of a decimal digit character, -1 for any other character
DigitValue(c) ==
    CASE c = "0" -> 0 [] c = "1" -> 1 [] c = "2" -> 2 [] c = "3" -> 3
      [] c = "4" -> 4 [] c = "5" -> 5 [] c = "6" -> 6 [] c = "7" -> 7
      [] c = "8" -> 8 [] c = "9" -> 9 [] OTHER -> -1

\* parseInt(s, 10): the number its leading digits spell, -1 (NaN) if none
RECURSIVE ParseIntFrom(_, _, _)
ParseIntFrom(s, i, acc) ==
    IF i > Len(s) \/ DigitValue(s[i]) = -1 THEN acc
    ELSE ParseIntFrom(s, i + 1, (IF acc = -1 THEN 0 ELSE acc * 10) + DigitValue(s[i]))

\* a lookup that compares numbers: a.id === parseInt(params.id, 10)
RECURSIVE FindParsedFrom(_, _, _)
FindParsedFrom(data, id, i) ==
    IF i > Len(data) THEN Undefined
    ELSE IF data[i].id = ParseIntFrom(id, 1, -1) THEN data[i]
    ELSE FindParsedFrom(data, id, i + 1)

Find_ParseInt(data, id) == FindParsedFrom(data, id, 1)

\* a lookup that returns the last record whenever some record matches
Find_Last(data, id) ==
    IF FindFrom(data, id, 1) = Undefined THEN Undefined ELSE data[Len(data)]

\* articles.data.find((a) => a.id.toString() === params.id)
Find(data, id) == FindFrom(data, id, 1)

\* a guard that never ends the request
NotFoundGuard_NoThrow(article) == FALSE

\* if (!article) { notFound(); }   notFound() throws and ends the request
NotFoundGuard(article) == article = Undefined

\* a property of a looked-up record; reading one of undefined is a TypeError
Prop(article, f) == IF article = Undefined THEN "TypeError" ELSE article[f]

\* a try without the catch: the read error leaves the function
TryRead_Rethrow(result) ==
    IF result.ok THEN [ threw |-> FALSE, content |-> result.data ]
    ELSE [ threw |-> TRUE, content |-> "" ]

\* a try whose result is overwritten by the fallback
TryRead_AlwaysFallback(result) == [ threw |-> FALSE, content |-> Fallback ]

\* try { content = await fs.readFile(...) } catch (e) { content = "File cannot be used" }
TryRead(result) ==
    IF result.ok THEN [ threw |-> FALSE, content |-> result.data ]
    ELSE [ threw |-> FALSE, content |-> Fallback ]

\* a page that drops the title when the body is the fallback
Page_BlankOnFallback(article, content) ==
    << [ el |-> "Image", src |-> Prop(article, "image"),
         alt |-> IF content = Fallback THEN "" ELSE Prop(article, "title") ],
       [ el |-> "Text", role |-> "title",
         text |-> IF content = Fallback THEN "" ELSE Prop(article, "title") ],
       [ el |-> "Text", role |-> "date", text |-> Prop(article, "date") ],
       [ el |-> "Line" ],
       [ el |-> "ReactMarkdown", remarkPlugins |-> << "remarkGfm" >>,
         children |-> content ] >>

\* the JSX returned: the children of <Column>, in order
Page(article, content) ==
    << [ el |-> "Image", src |-> Prop(article, "image"), alt |-> Prop(article, "title") ],
       [ el |-> "Text", role |-> "title", text |-> Prop(article, "title") ],
       [ el |-> "Text", role |-> "date", text |-> Prop(article, "date") ],
       [ el |-> "Line" ],
       [ el |-> "ReactMarkdown", remarkPlugins |-> << "remarkGfm" >>,
         children |-> content ] >>

NoPage == << >>

\* a request slot with no request in it
IdleReq ==
    [ pc |-> "idle", id |-> << >>, article |-> Undefined,
      reads |-> << >>, result |-> [ ok |-> FALSE, err |-> "none" ],
      content |-> "", page |-> NoPage ]

\* a notFound() after which the function goes on to read and render
notFound_Continue(id) ==
    [ IdleReq EXCEPT !.pc = "notfound", !.id = id,
                     !.reads = << FilePath(id) >>,
                     !.content = Fallback,
                     !.page = Page(Undefined, Fallback) ]

\* notFound(): throws, so the request ends with nothing read or rendered
notFound(id) == [ IdleReq EXCEPT !.pc = "notfound", !.id = id ]

\* lines 29-39: the synchronous part of ArticleDetail, up to the await.
\* An unmatched id ends the request in notFound(); a matched one joins the
\* path and issues the read.
ArticleDetailCall(r, id) ==
    /\ req[r].pc = "idle"
    /\ LET article == Find(articles.data, id)
       IN  IF NotFoundGuard(article)
           THEN req' = [ req EXCEPT ![r] = notFound(id) ]
           ELSE req' = [ req EXCEPT ![r] =
                    [ IdleReq EXCEPT !.pc = "reading", !.id = id,
                                     !.article = article,
                                     !.reads = << FilePath(id) >> ] ]
    /\ UNCHANGED <<configVars, widgetVars, fs, headerVars, siteVars>>

\* a read whose promise never settles when the file cannot be read
AwaitReadFile_HangOnError(r) ==
    /\ req[r].pc = "reading"
    /\ ReadFile(fs, req[r].reads[Len(req[r].reads)]).ok
    /\ LET result == ReadFile(fs, req[r].reads[Len(req[r].reads)])
       IN  req' = [ req EXCEPT ![r].pc = "rendered", ![r].result = result,
                                ![r].content = result.data,
                                ![r].page = Page(req[r].article, result.data) ]
    /\ UNCHANGED <<configVars, widgetVars, fs, headerVars, siteVars>>

\* a read whose path is a variable shared by the requests in flight: the
\* path joined last, by whichever request, is the one that is read
AwaitReadFile_SharedPath(r) ==
    /\ req[r].pc = "reading"
    /\ LET q == CHOOSE q \in Requests :
                    /\ req[q].reads # << >>
                    /\ \A x \in Requests : req[x].reads # << >> => x <= q
           result == ReadFile(fs, req[q].reads[1])
           t == TryRead(result)
       IN  req' = [ req EXCEPT ![r].pc = "rendered", ![r].result = result,
                                ![r].content = t.content,
                                ![r].page = Page(req[r].article, t.content) ]
    /\ UNCHANGED <<configVars, widgetVars, fs, headerVars, siteVars>>

\* lines 39-72: the promise of fs.readFile settles with the file's state now
\* and the continuation runs in the same turn: try/catch, then the JSX
AwaitReadFile(r) ==
    /\ req[r].pc = "reading"
    /\ LET result == ReadFile(fs, req[r].reads[Len(req[r].reads)])
           t == TryRead(result)
       IN  IF t.threw
           THEN req' = [ req EXCEPT ![r].pc = "error", ![r].result = result ]
           ELSE req' = [ req EXCEPT ![r].pc = "rendered",
                                    ![r].result = result,
                                    ![r].content = t.content,
                                    ![r].page = Page(req[r].article, t.content) ]
    /\ UNCHANGED <<configVars, widgetVars, fs, headerVars, siteVars>>

\* the response has been sent; the slot is free for the next request
Respond(r) ==
    /\ req[r].pc \in { "rendered", "notfound", "error" }
    /\ req' = [ req EXCEPT ![r] = IdleReq ]
    /\ UNCHANGED <<configVars, widgetVars, fs, headerVars, siteVars>>

\* the environment adds, removes, rewrites or locks an article file
FsChange(p, s) ==
    /\ fs[p] # s
    /\ fs' = [ fs EXCEPT ![p] = s ]
    /\ UNCHANGED <<configVars, widgetVars, req, headerVars, siteVars>>

\* the value of an output that has not been produced yet
NotRendered == [ rendered |-> FALSE ]

-----------------------------------------------------------------------------
(* Properties of the article detail route                                 *)

\* the id string equals the decimal string of some Article.id
Matches(id) ==
    \E i \in DOMAIN articles_data : toString(articles_data[i].id) = id

\* the metadata record an id string names
RecordOf(id) ==
    articles_data[CHOOSE i \in DOMAIN articles_data :
                            toString(articles_data[i].id) = id]

\* the text a page hands to the markdown renderer
MarkdownOf(page) == page[Len(page)]

\* a page without the text of its article body
ChromeOf(page) == SubSeq(page, 1, Len(page) - 1)

\* some element of the page shows the value v
Shows(page, v) ==
    \E k \in DOMAIN page :
        \/ "text" \in DOMAIN page[k] /\ page[k].text = v
        \/ "src" \in DOMAIN page[k] /\ page[k].src = v

\* some element of the page shows every tag of the list
ShowsTags(page, tags) == \A i \in DOMAIN tags : Shows(page, tags[i])

\* C1: a request whose id string is the decimal string of no Article.id ends
\* in not-found, and no file read is attempted at any point of the request.
C1_UnmatchedIsNotFoundWithoutRead ==
    \A r \in Requests :
        (req[r].pc # "idle" /\ ~Matches(req[r].id))
            => (req[r].pc = "notfound" /\ req[r].reads = << >>)

\* C1 witness: the request for id "999" has ended in not-found
C1_Witness ==
    \E r \in Requests :
        req[r].pc = "notfound" /\ req[r].id = << "9", "9", "9" >>

\* C2: when the id matches and the read of <id>.md fails, for whatever reason,
\* the request ends with a rendered page whose markdown text is exactly the
\* fallback literal; no request ends in an error.
C2_FailedReadRendersFallback ==
    \A r \in Requests :
        /\ req[r].pc # "error"
        /\ (req[r].pc = "rendered" /\ ~req[r].result.ok)
            => /\ Matches(req[r].id)
               /\ MarkdownOf(req[r].page).el = "ReactMarkdown"
               /\ MarkdownOf(req[r].page).children = "File cannot be used"

\* C2 witness: a page was rendered after the read failed on an unreadable file
C2_Witness ==
    \E r \in Requests :
        /\ req[r].pc = "rendered"
        /\ ~req[r].result.ok
        /\ req[r].result.err = "EACCES"

C4_Original ==
    \A r \in Requests :
        req[r].pc = "rendered"
            => /\ Shows(req[r].page, RecordOf(req[r].id).title)
               /\ Shows(req[r].page, RecordOf(req[r].id).date)
               /\ Shows(req[r].page, RecordOf(req[r].id).image)
               /\ ShowsTags(req[r].page, RecordOf(req[r].id).tags)

\* C4 amended: the lookup yields the matched record unchanged, tags included;
\* the rendered detail view shows its title, date and image (no tags); and two
\* requests for the same id show the same title, date and image.
C4_MetadataUnchanged ==
    /\ \A r \in Requests :
        req[r].pc \in { "reading", "rendered" }
            => /\ Matches(req[r].id)
               /\ req[r].article = RecordOf(req[r].id)
    /\ \A r \in Requests :
        req[r].pc = "rendered"
            => /\ req[r].page[1].el = "Image"
               /\ req[r].page[1].src = RecordOf(req[r].id).image
               /\ req[r].page[1].alt = RecordOf(req[r].id).title
               /\ req[r].page[2].text = RecordOf(req[r].id).title
               /\ req[r].page[3].text = RecordOf(req[r].id).date
               /\ \A i \in DOMAIN RecordOf(req[r].id).tags :
                     ~Shows(req[r].page, RecordOf(req[r].id).tags[i])
    /\ \A r1, r2 \in Requests :
        (req[r1].pc = "rendered" /\ req[r2].pc = "rendered"
            /\ req[r1].id = req[r2].id)
            => /\ req[r1].article = req[r2].article
               /\ req[r1].page[1] = req[r2].page[1]
               /\ req[r1].page[2] = req[r2].page[2]
               /\ req[r1].page[3] = req[r2].page[3]

\* C4 witness: the same id was requested twice and both pages are rendered
C4_Witness ==
    \E r1, r2 \in Requests :
        /\ r1 # r2
        /\ req[r1].pc = "rendered" /\ req[r2].pc = "rendered"
        /\ req[r1].id = << "1" >> /\ req[r2].id = << "1" >>

\* C5: not-found is terminal: a request that ended in not-found has rendered
\* nothing (no image, title, date or body), has read nothing, and its next
\* step can only be the end of the request.
C5_NotFoundIsTerminal ==
    /\ [](\A r \in Requests :
            req[r].pc = "notfound"
                => /\ req[r].page = NoPage
                   /\ req[r].content = ""
                   /\ req[r].reads = << >>)
    /\ [][\A r \in Requests :
            req[r].pc = "notfound" => req'[r].pc \in { "notfound", "idle" }]_vars

\* C5 witness: the request for id "00" has ended in not-found
C5_Witness ==
    \E r \in Requests :
        req[r].pc = "notfound" /\ req[r].id = << "0", "0" >>

\* C6: a failed read changes only the article body: two rendered pages of the
\* same id are equal in everything but the markdown text, whether the read
\* succeeded or failed, and both have the full page around the body.
C6_FailedReadChangesOnlyBody ==
    \A r1, r2 \in Requests :
        (req[r1].pc = "rendered" /\ req[r2].pc = "rendered"
            /\ req[r1].id = req[r2].id)
            => /\ ChromeOf(req[r1].page) = ChromeOf(req[r2].page)
               /\ Len(req[r1].page) = 5
               /\ req[r1].page[2].text = RecordOf(req[r1].id).title
               /\ MarkdownOf(req[r1].page).el = MarkdownOf(req[r2].page).el
               /\ MarkdownOf(req[r1].page).remarkPlugins
                    = MarkdownOf(req[r2].page).remarkPlugins

\* C6 witness: the same id rendered once from its file and once after a
\* failed read
C6_Witness ==
    \E r1, r2 \in Requests :
        /\ req[r1].pc = "rendered" /\ req[r2].pc = "rendered"
        /\ req[r1].id = req[r2].id
        /\ req[r1].result.ok /\ ~req[r2].result.ok
        /\ MarkdownOf(req[r1].page).children # MarkdownOf(req[r2].page).children

-----------------------------------------------------------------------------
(* Header: the navigation highlight                                       *)

\* usePathname() can return null (no string is a sequence of this shape)
Null == << "null" >>

\* the paths the router can report
Paths ==
    { << "/" >>,
      << "/", "a", "b", "o", "u", "t" >>,
      << "/", "a", "b", "o", "u", "t", "/", "m", "e" >>,
      << "/", "a", "r", "t", "i", "c", "l", "e", "s" >>,
      << "/", "a", "r", "t", "i", "c", "l", "e", "s", "/", "0" >>,
      << "/", "a", "r", "t", "i", "c", "l", "e", "s", "x" >>,
      << "/", "w", "o", "r", "k" >>,
      << >> }

HomeHref == << "/" >>
AboutHref == << "/", "a", "b", "o", "u", "t" >>
ArticlesHref == << "/", "a", "r", "t", "i", "c", "l", "e", "s" >>

\* the route toggles of resources/config: the navigation is a fixed set of links
routes == [ home |-> TRUE, about |-> TRUE, articles |-> TRUE ]

\* String.prototype.startsWith
startsWith(s, prefix) ==
    /\ Len(s) >= Len(prefix)
    /\ SubSeq(s, 1, Len(prefix)) = prefix

\* const pathname = usePathname() ?? ""
Pathname(raw) == IF raw = Null THEN << >> ELSE raw

\* a Home entry that matches by prefix, as the Articles entry does
HomeSelected_Prefix(p) == startsWith(p, HomeHref)

\* selected={pathname === "/"}
HomeSelected(p) == p = HomeHref

\* selected={pathname === "/about"}
AboutSelected(p) == p = AboutHref

\* an exact match where the code matches by prefix
ArticlesSelected_Exact(p) == p = ArticlesHref

\* selected={pathname.startsWith("/articles")}
ArticlesSelected(p) == startsWith(p, ArticlesHref)

\* one <ToggleButton>
ToggleButton(href, cls, selected) ==
    [ href |-> href, className |-> cls, selected |-> selected ]

\* the ToggleButtons of the Header, in order
Header(raw) ==
    LET p == Pathname(raw)
    IN  (IF routeConfig.home
            THEN << ToggleButton(HomeHref, "", HomeSelected(p)) >> ELSE << >>)
        \o
        (IF routeConfig.about
            THEN << ToggleButton(AboutHref, "s-flex-hide", AboutSelected(p)),
                    ToggleButton(AboutHref, "s-flex-show", AboutSelected(p)) >>
            ELSE << >>)
        \o
        (IF routeConfig.articles
            THEN << ToggleButton(ArticlesHref, "s-flex-hide", ArticlesSelected(p)),
                    ToggleButton(ArticlesHref, "s-flex-show", ArticlesSelected(p)) >>
            ELSE << >>)

\* the router reports a new path and the Header renders again
Navigate(raw) ==
    /\ raw # pathname
    /\ pathname' = raw
    /\ nav' = Header(raw)
    /\ UNCHANGED <<configVars, widgetVars, detailVars, siteVars, clock, timers, nextTimerId, now>>

-----------------------------------------------------------------------------
(* TimeDisplay: the clock                                                 *)

\* how many TimeDisplay instances the page holds
MaxClocks == 1

\* how many intervals the page creates in its life
MaxTimers == 2

\* how many seconds of wall-clock time the model follows
MaxSeconds == 2

\* setInterval(updateTime, 1000)
IntervalMs == 1000

Clocks == 1..MaxClocks

TimeZones == { "America/Los_Angeles", "UTC" }

Locales == { "en-GB", "fi-FI" }

\* new Date() at the start of the model: 23:59:58 UTC
StartInstantMs == ((23 * 60 + 59) * 60 + 58) * 1000

\* the UTC offset of a time zone, in seconds
OffsetSeconds(tz) == IF tz = "America/Los_Angeles" THEN 0 - 8 * 3600 ELSE 0

\* the separator between the fields of a time in a locale
Separator(locale) == IF locale = "fi-FI" THEN "." ELSE ":"

\* a number as two digits
TwoDigit(n) == << Digit(n \div 10), Digit(n % 10) >>

\* new Intl.DateTimeFormat(locale, {timeZone, hour, minute, second: "2-digit",
\* hour12: false}).format(instant)
DateTimeFormat(locale, timeZone, instantMs) ==
    LET s == ((instantMs \div 1000) + OffsetSeconds(timeZone)) % 86400
    IN  TwoDigit(s \div 3600) \o << Separator(locale) >>
        \o TwoDigit((s % 3600) \div 60) \o << Separator(locale) >>
        \o TwoDigit(s % 60)

\* an updateTime whose Date was taken once, outside the callback
updateTime_Frozen(timeZone, locale, t) ==
    DateTimeFormat(locale, timeZone, StartInstantMs)

\* updateTime: the string handed to setCurrentTime
updateTime(timeZone, locale, t) ==
    DateTimeFormat(locale, timeZone, StartInstantMs + t)

\* a TimeDisplay that is not mounted; useState("") is its first state
Unmounted ==
    [ mounted |-> FALSE, timeZone |-> "", locale |-> "",
      currentTime |-> << >>, intervalId |-> 0 ]

\* setInterval(updateTime, 1000) inside the effect of instance c
setInterval(tm, id, c, timeZone, locale) ==
    [ i \in DOMAIN tm \cup { id } |->
        IF i = id
        THEN [ owner |-> c, timeZone |-> timeZone, locale |-> locale,
               due |-> FALSE, fired |-> 0 ]
        ELSE tm[i] ]

\* clearInterval(id)
clearInterval(tm, id) == [ i \in DOMAIN tm \ { id } |-> tm[i] ]

\* an effect without a cleanup
Cleanup_Leak(tm, id) == tm

\* return () => clearInterval(intervalId)
Cleanup(tm, id) == clearInterval(tm, id)

\* a dependency array without timeZone
DepsChanged_LocaleOnly(old, timeZone, locale) == old.locale # locale

\* the dependency array [timeZone, locale]
DepsChanged(old, timeZone, locale) ==
    old.timeZone # timeZone \/ old.locale # locale

\* an effect that only starts the interval: the first updateTime() is the
\* first tick's
RunEffect_NoImmediate(c, timeZone, locale, tm) ==
    /\ nextTimerId < MaxTimers
    /\ nextTimerId' = nextTimerId + 1
    /\ timers' = setInterval(tm, nextTimerId + 1, c, timeZone, locale)
    /\ clock' = [ clock EXCEPT ![c] =
                    [ mounted |-> TRUE, timeZone |-> timeZone, locale |-> locale,
                      currentTime |-> clock[c].currentTime,
                      intervalId |-> nextTimerId + 1 ] ]

\* the effect, lines 17-35: updateTime() at once, then the interval
RunEffect(c, timeZone, locale, tm) ==
    /\ nextTimerId < MaxTimers
    /\ nextTimerId' = nextTimerId + 1
    /\ timers' = setInterval(tm, nextTimerId + 1, c, timeZone, locale)
    /\ clock' = [ clock EXCEPT ![c] =
                    [ mounted |-> TRUE, timeZone |-> timeZone, locale |-> locale,
                      currentTime |-> updateTime(timeZone, locale, now),
                      intervalId |-> nextTimerId + 1 ] ]

\* the component mounts: first render, then its effect
Mount(c, timeZone, locale) ==
    /\ ~clock[c].mounted
    /\ RunEffect(c, timeZone, locale, timers)
    /\ UNCHANGED <<configVars, widgetVars, detailVars, siteVars, pathname, nav, now>>

\* the parent renders the component with other props; when a dependency
\* changed, the cleanup of the last effect runs and then the effect again
SetProps(c, timeZone, locale) ==
    /\ clock[c].mounted
    /\ << timeZone, locale >> # << clock[c].timeZone, clock[c].locale >>
    /\ IF DepsChanged(clock[c], timeZone, locale)
       THEN RunEffect(c, timeZone, locale, Cleanup(timers, clock[c].intervalId))
       ELSE /\ clock' = [ clock EXCEPT ![c].timeZone = timeZone,
                                       ![c].locale = locale ]
            /\ UNCHANGED <<timers, nextTimerId>>
    /\ UNCHANGED <<configVars, widgetVars, detailVars, siteVars, pathname, nav, now>>

\* the component unmounts: the cleanup of its effect runs, its state is dropped
Unmount(c) ==
    /\ clock[c].mounted
    /\ timers' = Cleanup(timers, clock[c].intervalId)
    /\ clock' = [ clock EXCEPT ![c] = Unmounted ]
    /\ UNCHANGED <<configVars, widgetVars, detailVars, siteVars, pathname, nav, nextTimerId, now>>

\* a second of wall-clock time passes: every active interval is due
TimePasses ==
    /\ now < MaxSeconds * IntervalMs
    /\ now' = now + IntervalMs
    /\ timers' = [ i \in DOMAIN timers |-> [ timers[i] EXCEPT !.due = TRUE ] ]
    /\ UNCHANGED <<configVars, widgetVars, detailVars, siteVars, pathname, nav, clock, nextTimerId>>

\* the interval id fires: updateTime runs with the props its effect closed
\* over; setCurrentTime on an unmounted component changes nothing shown
Tick(id) ==
    /\ id \in DOMAIN timers
    /\ timers[id].due
    /\ timers' = [ timers EXCEPT ![id].due = FALSE,
                                 ![id].fired = timers[id].fired + 1 ]
    /\ LET c == timers[id].owner
       IN  clock' = IF clock[c].mounted
                    THEN [ clock EXCEPT ![c].currentTime =
                             updateTime(timers[id].timeZone, timers[id].locale, now) ]
                    ELSE clock
    /\ UNCHANGED <<configVars, widgetVars, detailVars, siteVars, pathname, nav, nextTimerId, now>>

-----------------------------------------------------------------------------
(* Properties of the Header and of the clock                              *)

\* some rendered ToggleButton of the entry is selected
Highlighted(buttons, href) ==
    \E k \in DOMAIN buttons : buttons[k].href = href /\ buttons[k].selected

\* the first characters of s are those of "/articles"
UnderArticles(s) ==
    /\ Len(s) >= 9
    /\ << s[1], s[2], s[3], s[4], s[5], s[6], s[7], s[8], s[9] >>
         = << "/", "a", "r", "t", "i", "c", "l", "e", "s" >>

\* C7: for every current path the Home entry is highlighted iff the path is
\* "/", the About entry iff it is "/about", and the Articles entry iff it
\* begins with "/articles"; the two buttons of an entry agree.
C7_HighlightMatchesPath ==
    LET p == IF pathname = Null THEN << >> ELSE pathname
    IN  /\ Highlighted(nav, HomeHref) <=> p = << "/" >>
        /\ Highlighted(nav, AboutHref) <=> p = << "/", "a", "b", "o", "u", "t" >>
        /\ Highlighted(nav, ArticlesHref) <=> UnderArticles(p)
        /\ \A j, k \in DOMAIN nav :
                nav[j].href = nav[k].href => nav[j].selected = nav[k].selected

\* C7 witness: on /articles/0 the Articles entry is the highlighted one
C7_Witness ==
    /\ pathname = << "/", "a", "r", "t", "i", "c", "l", "e", "s", "/", "0" >>
    /\ Highlighted(nav, ArticlesHref)
    /\ ~Highlighted(nav, HomeHref)

\* the interval id runs its callback in this step
Fires(id) ==
    /\ id \in DOMAIN timers
    /\ id \in DOMAIN timers'
    /\ timers'[id].fired = timers[id].fired + 1

\* C8: no interval outlives its component: every active interval belongs to a
\* mounted TimeDisplay and is the one its effect holds, so no callback runs
\* for an unmounted component and its displayed time is never updated.
C8_NoUpdateAfterUnmount ==
    /\ [](\A id \in DOMAIN timers :
            /\ clock[timers[id].owner].mounted
            /\ clock[timers[id].owner].intervalId = id)
    /\ [][\A id \in DOMAIN timers :
            Fires(id) => clock[timers[id].owner].mounted]_vars
    /\ [][\A c \in Clocks :
            (~clock[c].mounted /\ ~clock'[c].mounted)
                => clock'[c].currentTime = clock[c].currentTime]_vars

\* C8 witness: a clock that was mounted is unmounted, no interval of it is
\* left, and the wall clock has run to the end
C8_Witness ==
    \E c \in Clocks :
        /\ ~clock[c].mounted
        /\ nextTimerId > 0
        /\ now = MaxSeconds * IntervalMs
        /\ \A id \in DOMAIN timers : timers[id].owner # c

\* C9: while a TimeDisplay is mounted its interval is active; every second
\* that passes makes it due; every run of its callback sets the displayed
\* time to the current time in the component's zone and locale and leaves
\* the interval active.
C9_TicksWhileMounted ==
    /\ [](\A c \in Clocks :
            clock[c].mounted
                => /\ clock[c].intervalId \in DOMAIN timers
                   /\ timers[clock[c].intervalId].owner = c)
    /\ [][now' # now => \A id \in DOMAIN timers' : timers'[id].due]_vars
    /\ [][\A id \in DOMAIN timers :
            Fires(id)
                => LET c == timers[id].owner
                   IN  /\ clock'[c].mounted
                       /\ clock'[c].intervalId = id
                       /\ clock'[c].currentTime =
                            DateTimeFormat(clock[c].locale, clock[c].timeZone,
                                           StartInstantMs + now)]_vars

\* C9 witness: a mounted clock whose interval has fired twice shows the time
\* two seconds after the start, 16:00:00 in Los Angeles
C9_Witness ==
    \E c \in Clocks :
        /\ clock[c].mounted
        /\ clock[c].timeZone = "America/Los_Angeles"
        /\ clock[c].locale = "en-GB"
        /\ timers[clock[c].intervalId].fired = 2
        /\ clock[c].currentTime = << "1", "6", ":", "0", "0", ":", "0", "0" >>

\* the intervals of instance c
TimersOf(c) == { id \in DOMAIN timers : timers[id].owner = c }

\* C10: the interval is a scoped resource: a mounted TimeDisplay has exactly
\* one active interval and an unmounted one has none; a step that acquires a
\* new interval for an instance leaves none of its old ones; the callback of
\* the active interval formats with the component's current zone and locale,
\* and so does every update of the displayed time.
C10_ScopedTimer ==
    /\ [](\A c \in Clocks :
            /\ clock[c].mounted => Cardinality(TimersOf(c)) = 1
            /\ ~clock[c].mounted => TimersOf(c) = { }
            /\ \A id \in TimersOf(c) :
                    /\ timers[id].timeZone = clock[c].timeZone
                    /\ timers[id].locale = clock[c].locale)
    /\ [][\A id \in DOMAIN timers' :
            id \notin DOMAIN timers
                => \A old \in DOMAIN timers :
                        timers[old].owner = timers'[id].owner
                            => old \notin DOMAIN timers']_vars
    /\ [][\A c \in Clocks :
            (clock'[c].mounted /\ clock'[c].currentTime # clock[c].currentTime)
                => clock'[c].currentTime =
                        DateTimeFormat(clock'[c].locale, clock'[c].timeZone,
                                       StartInstantMs + now')]_vars

\* C10 witness: after the zone changed from Los Angeles to UTC the second
\* interval has fired and the clock shows UTC time
C10_Witness ==
    \E c \in Clocks :
        /\ clock[c].mounted
        /\ clock[c].timeZone = "UTC"
        /\ clock[c].intervalId = 2
        /\ timers[2].fired = 1
        /\ clock[c].currentTime = << "0", "0", ":", "0", "0", ":", "0", "0" >>

\* the effect of instance c ran in this step
EffectRan(c) ==
    clock'[c].mounted /\ clock'[c].intervalId # clock[c].intervalId

\* C23: a mounted TimeDisplay never shows the empty string, and the step in
\* which its effect runs (on mount and after a change of time zone or
\* locale) already shows the time of that moment in the new zone and locale,
\* before the interval it started has fired.
C23_TimeShownAtOnce ==
    /\ [](\A c \in Clocks : clock[c].mounted => clock[c].currentTime # << >>)
    /\ [][\A c \in Clocks :
            EffectRan(c)
                => /\ clock'[c].currentTime =
                        DateTimeFormat(clock'[c].locale, clock'[c].timeZone,
                                       StartInstantMs + now')
                   /\ timers'[clock'[c].intervalId].fired = 0
                   /\ ~timers'[clock'[c].intervalId].due]_vars

\* C23 witness: after a second has passed the effect ran again, and the
\* clock shows a time although its new interval has not fired
C23_Witness ==
    \E c \in Clocks :
        /\ clock[c].mounted
        /\ clock[c].intervalId = 2
        /\ now = IntervalMs
        /\ timers[2].fired = 0 /\ ~timers[2].due
        /\ Len(clock[c].currentTime) = 8


-----------------------------------------------------------------------------
(* generateStaticParams and generateMetadata                              *)

\* params of every record but the first
generateStaticParams_SkipFirst(data) ==
    [ k \in 1..(Len(data) - 1) |-> [ id |-> toString(data[k + 1].id) ] ]

\* articles.data.map((article) => ({ id: article.id.toString() }))
generateStaticParams(data) ==
    [ k \in DOMAIN data |-> [ id |-> toString(data[k].id) ] ]

\* the object {}: reading either property of it gives undefined
EmptyMetadata == [ title |-> Undefined, description |-> Undefined ]

\* a generateMetadata without the guard: it reads the properties of whatever
\* the lookup returned
generateMetadata_NoGuard(data, id) ==
    [ title |-> [ value |-> Prop(Find(data, id), "title") ],
      description |-> [ value |-> Prop(Find(data, id), "description") ] ]

\* generateMetadata({ params })
generateMetadata(data, id) ==
    LET article == Find(data, id)
    IN  IF article = Undefined THEN EmptyMetadata
        ELSE [ title |-> [ value |-> article.title ],
               description |-> [ value |-> article.description ] ]

\* a generateStaticParams that reverses the list in place before mapping it
GenerateStaticParams_Reverse ==
    /\ articles' = [ articles EXCEPT !.data =
                       [ k \in DOMAIN articles.data |->
                           articles.data[Len(articles.data) + 1 - k] ] ]
    /\ staticParams' = [ rendered |-> TRUE,
                         out |-> generateStaticParams(articles'.data) ]
    /\ UNCHANGED <<configVars, widgetVars, detailVars, headerVars, listPage, pageMetadata, opened>>

\* a call of generateStaticParams at build time
GenerateStaticParams ==
    /\ staticParams' = [ rendered |-> TRUE,
                         out |-> generateStaticParams(articles.data) ]
    /\ UNCHANGED <<configVars, widgetVars, detailVars, headerVars, articles, listPage, pageMetadata, opened>>

\* a call of generateMetadata for the id string of a route
GenerateMetadata(id) ==
    /\ pageMetadata' = [ rendered |-> TRUE, id |-> id,
                         out |-> generateMetadata(articles.data, id) ]
    /\ UNCHANGED <<configVars, widgetVars, detailVars, headerVars, articles, listPage, staticParams, opened>>

\* the article files of the repository: 0.md is there, 1.md and 2.md are not
RepoFs ==
    [ p \in TrackedPaths |->
        IF p = FilePath(toString(0)) THEN File("# Hello") ELSE Missing ]

\* C14: after any sequence of list renders, detail requests, metadata
\* generation and static-param generation the articles object of the content
\* module, and with it the metadata list (records, order and length), is what
\* the module declares.
C14_ContentNeverMutated ==
    /\ articles = content_articles
    /\ articles.data = articles_data
    /\ Len(articles.data) = 3
    /\ \A k \in DOMAIN articles.data : articles.data[k].id = k - 1

\* C14 witness: every kind of operation has run: a list render, both
\* generators, a request that fell back and a request that was not found
C14_Witness ==
    /\ listPage.rendered /\ staticParams.rendered /\ pageMetadata.rendered
    /\ \E r1, r2 \in Requests :
        /\ req[r1].pc = "rendered" /\ req[r1].content = Fallback
        /\ req[r2].pc = "notfound"


\* the id strings of the generated params
ParamIds == { staticParams.out[k].id : k \in DOMAIN staticParams.out }

\* C19: generateStaticParams returns one param per metadata record, in list
\* order, and a request is answered with something other than not-found
\* exactly when its id string is one of the generated ids.
C19_ParamsAreTheFoundIds ==
    staticParams.rendered =>
        /\ Len(staticParams.out) = Len(articles.data)
        /\ \A k \in DOMAIN articles.data :
              staticParams.out[k].id = toString(articles.data[k].id)
        /\ \A r \in Requests :
              req[r].pc # "idle"
                  => (req[r].pc # "notfound" <=> req[r].id \in ParamIds)
        /\ \A id \in RequestIds :
              (generateMetadata(articles.data, id) # EmptyMetadata)
                  <=> id \in ParamIds

\* C19 witness: the params are generated, a request for the generated id "2"
\* is rendered and a request for "00" is not found
C19_Witness ==
    /\ staticParams.rendered
    /\ \E r1, r2 \in Requests :
        /\ req[r1].pc = "rendered" /\ req[r1].id = << "2" >>
        /\ req[r2].pc = "notfound" /\ req[r2].id = << "0", "0" >>


\* C21: generateMetadata and ArticleDetail agree on every id string: the
\* metadata is the title and description of the record ArticleDetail found,
\* and it is the empty object exactly when ArticleDetail reports not-found;
\* generating it raises no error, reads no file and starts no request.
C21_MetadataAgreesWithDetail ==
    /\ [](pageMetadata.rendered =>
            /\ \/ pageMetadata.out = EmptyMetadata
               \/ /\ pageMetadata.out.title.value # "TypeError"
                  /\ pageMetadata.out.description.value # "TypeError"
            /\ (pageMetadata.out = EmptyMetadata) <=> ~Matches(pageMetadata.id)
            /\ \A r \in Requests :
                  (req[r].pc # "idle" /\ req[r].id = pageMetadata.id)
                      => /\ (req[r].pc = "notfound")
                               <=> (pageMetadata.out = EmptyMetadata)
                         /\ req[r].pc # "notfound"
                             => /\ pageMetadata.out.title.value
                                      = req[r].article.title
                                /\ pageMetadata.out.description.value
                                      = req[r].article.description)
    /\ [][pageMetadata' # pageMetadata => (fs' = fs /\ req' = req)]_vars

\* C21 witness: the metadata of id "1" was generated while a request for the
\* same id is rendered and a request for "0.md" is not found
C21_Witness ==
    /\ pageMetadata.rendered
    /\ pageMetadata.id = << "1" >>
    /\ \E r1, r2 \in Requests :
        /\ req[r1].pc = "rendered" /\ req[r1].id = pageMetadata.id
        /\ req[r2].pc = "notfound" /\ req[r2].id = << "0", ".", "m", "d" >>


-----------------------------------------------------------------------------
(* Reads of the article detail route                                      *)

\* the state of the file at path p when it is read
StateAt(p) == IF p \in DOMAIN fs THEN fs[p] ELSE Missing

\* C13: a request for a matched id makes exactly one read attempt, and the
\* text it renders is decided by the state of <id>.md at the moment of that
\* read, whatever earlier requests for the same id read.
C13_OneFreshReadPerRequest ==
    /\ [](\A r \in Requests :
            req[r].pc \in { "reading", "rendered", "error" }
                => /\ Matches(req[r].id)
                   /\ Len(req[r].reads) = 1)
    /\ [][\A r \in Requests :
            (req[r].pc = "reading" /\ req'[r].pc # "reading")
                => /\ req'[r].pc = "rendered"
                   /\ req'[r].reads = req[r].reads
                   /\ req'[r].content =
                        IF StateAt(req[r].reads[1]).kind = "file"
                        THEN StateAt(req[r].reads[1]).data
                        ELSE Fallback]_vars

\* C13 witness: two requests for one id rendered two different readable
\* contents of the file
C13_Witness ==
    \E r1, r2 \in Requests :
        /\ req[r1].pc = "rendered" /\ req[r2].pc = "rendered"
        /\ req[r1].id = req[r2].id
        /\ req[r1].result.ok /\ req[r2].result.ok
        /\ req[r1].content = "" /\ req[r2].content = "# Hello"


-----------------------------------------------------------------------------
(* The paths the article detail route reads                               *)

\* <articles-dir>/<s>.md for the decimal string s of n, written out
KeyedPath(n) ==
    << "/", "a", "p", "p", "/", "p", "u", "b", "l", "i", "c", "/",
       "a", "r", "t", "i", "c", "l", "e", "s", "/" >>
        \o toString(n) \o << ".", "m", "d" >>

\* C17: every path ArticleDetail reads is <articles-dir>/<s>.md for the
\* decimal string s of an id of the metadata list, and the request that reads
\* it was made with exactly that string; no request string reads another path.
C17_ReadsOnlyKeyedFiles ==
    \A r \in Requests :
        \A k \in DOMAIN req[r].reads :
            \E i \in DOMAIN articles_data :
                /\ req[r].reads[k] = KeyedPath(articles_data[i].id)
                /\ req[r].id = toString(articles_data[i].id)

\* C17 witness: one request read the file of id 1 while requests with
\* "../x" and "1/../0" were answered without a read
C17_Witness ==
    \E r1, r2 \in Requests :
        /\ req[r1].reads = << KeyedPath(1) >>
        /\ req[r2].pc = "notfound"
        /\ req[r2].id \in { << ".", ".", "/", "x" >>,
                            << "1", "/", ".", ".", "/", "0" >> }
        /\ req[r2].reads = << >>


-----------------------------------------------------------------------------
(* The outcomes of a request                                              *)

\* C18: a request ends in exactly one of three outcomes: not-found for an
\* unmatched id, the page with the file's content for a matched id whose read
\* succeeded, the page with the fallback text for a matched id whose read
\* failed. No request is left with an error or with not-found and a page, and
\* every request that started reading is rendered in the end.
C18_OneOfThreeOutcomes ==
    /\ [](\A r \in Requests :
            /\ req[r].pc \in { "idle", "reading", "rendered", "notfound" }
            /\ req[r].pc = "notfound"
                => ~Matches(req[r].id) /\ req[r].page = NoPage
            /\ req[r].pc = "rendered"
                => /\ Matches(req[r].id)
                   /\ req[r].page # NoPage
                   /\ \/ /\ req[r].result.ok
                         /\ MarkdownOf(req[r].page).children = req[r].result.data
                      \/ /\ ~req[r].result.ok
                         /\ MarkdownOf(req[r].page).children = Fallback)
    /\ \A r \in Requests :
            (req[r].pc = "reading") ~> (req[r].pc = "rendered")

\* C18 witness: a request was rendered from its file and another one, whose
\* file is missing, from the fallback
C18_Witness ==
    \E r1, r2 \in Requests :
        /\ req[r1].pc = "rendered" /\ req[r1].result.ok
        /\ req[r1].content = "# Hello"
        /\ req[r2].pc = "rendered" /\ ~req[r2].result.ok
        /\ req[r2].result.err = "ENOENT"


-----------------------------------------------------------------------------
(* Requests in flight together                                            *)

\* what a request for id produces when it is the only request there is
Solo(id) ==
    IF ~Matches(id) THEN [ outcome |-> "notfound" ]
    ELSE [ outcome |-> "rendered",
           article |-> RecordOf(id),
           content |-> IF StateAt(FilePath(id)).kind = "file"
                       THEN StateAt(FilePath(id)).data
                       ELSE Fallback ]

\* C15: over a file system that does not change, whatever the interleaving
\* of the lookup, read and render steps of the requests in flight, each
\* request's outcome (not-found, file content or fallback) and metadata are
\* those of the same request run alone.
C15_RequestsAreIndependent ==
    \A r \in Requests :
        /\ req[r].pc \in { "idle", "reading", "rendered", "notfound" }
        /\ req[r].pc = "notfound" => Solo(req[r].id).outcome = "notfound"
        /\ req[r].pc = "reading"
            => /\ Solo(req[r].id).outcome = "rendered"
               /\ req[r].article = Solo(req[r].id).article
        /\ req[r].pc = "rendered"
            => /\ Solo(req[r].id).outcome = "rendered"
               /\ req[r].article = Solo(req[r].id).article
               /\ req[r].content = Solo(req[r].id).content
               /\ MarkdownOf(req[r].page).children = Solo(req[r].id).content
               /\ Shows(req[r].page, Solo(req[r].id).article.title)
               /\ Shows(req[r].page, Solo(req[r].id).article.date)
               /\ Shows(req[r].page, Solo(req[r].id).article.image)

\* C15 witness: two requests for different ids are rendered side by side,
\* one from its file and one from the fallback
C15_Witness ==
    \E r1, r2 \in Requests :
        /\ req[r1].pc = "rendered" /\ req[r2].pc = "rendered"
        /\ req[r1].id # req[r2].id
        /\ req[r1].content = "# Hello"
        /\ req[r2].content = Fallback /\ ~req[r2].result.ok


-----------------------------------------------------------------------------
(* The article list page: app/articles/page.tsx                           *)

\* the longest metadata list the list page is rendered from
MaxListLen == 4

\* the literal "/articles/" of the Link's href
ArticlesLinkPrefix == << "/", "a", "r", "t", "i", "c", "l", "e", "s", "/" >>

\* the callback of articlesData.map: one Link per record
ArticleLink(article, index) ==
    [ el |-> "Link",
      href |-> ArticlesLinkPrefix \o toString(article.id),
      key |-> index,
      children |->
        << [ el |-> "Image", src |-> article.image, alt |-> article.title ],
           [ el |-> "Text", role |-> "date", text |-> article.date ],
           [ el |-> "Text", role |-> "title", text |-> article.title ],
           [ el |-> "Text", role |-> "description", text |-> article.description ],
           [ el |-> "Flex",
             children |-> [ tagIndex \in DOMAIN article.tags |->
                              [ el |-> "Text", key |-> tagIndex - 1,
                                text |-> article.tags[tagIndex] ] ] ] >> ]

\* the branch rendered for an empty list
ComingSoon ==
    [ el |-> "Flex",
      children |->
        << [ el |-> "Text", text |-> "Coming Soon" ],
           [ el |-> "Text",
             text |-> "No articles available at the moment. Check back later for tech articles and tutorials." ] >> ]

\* const articlesData = articles.data || []
OrEmpty(mod) == IF "data" \in DOMAIN mod THEN mod.data ELSE << >>

\* a list page whose entries come out in reverse order
Articles_Reversed(mod) ==
    LET articlesData == OrEmpty(mod)
        n == Len(articlesData)
    IN  IF n > 0
        THEN [ k \in 1..n |-> ArticleLink(articlesData[n + 1 - k], k - 1) ]
        ELSE << ComingSoon >>

\* export default function Articles(): the children of the outer Column
Articles(mod) ==
    LET articlesData == OrEmpty(mod)
    IN  IF Len(articlesData) > 0
        THEN [ k \in 1..Len(articlesData) |-> ArticleLink(articlesData[k], k - 1) ]
        ELSE << ComingSoon >>

\* a render of the list page
RenderArticles ==
    /\ listPage' = [ rendered |-> TRUE, out |-> Articles(articles) ]
    /\ UNCHANGED <<configVars, widgetVars, detailVars, headerVars, articles, staticParams, pageMetadata, opened>>

\* the metadata lists the list page is rendered from
MetadataLists ==
    UNION { [ 1..n -> { articles_data[i] : i \in DOMAIN articles_data } ] :
              n \in 0..MaxListLen }

\* the articles objects of the content module: with a list, or with none
ArticlesObjects ==
    { [ content_articles EXCEPT !.data = d ] : d \in MetadataLists }
        \cup { [ label |-> content_articles.label,
                 title |-> content_articles.title,
                 description |-> content_articles.description ] }

(* Properties of the list page *)

IsEntry(e) == e.el = "Link"

IsComingSoon(e) == e.el = "Flex" /\ e.children[1].text = "Coming Soon"

\* the entry e is the projection of the record a
EntryOf(e, a) ==
    /\ IsEntry(e)
    /\ e.href = ArticlesLinkPrefix \o toString(a.id)
    /\ e.children[2].text = a.date
    /\ e.children[3].text = a.title
    /\ e.children[4].text = a.description
    /\ Len(e.children[5].children) = Len(a.tags)
    /\ \A t \in DOMAIN a.tags : e.children[5].children[t].text = a.tags[t]

\* C12: the list page renders exactly one entry per metadata record, in list
\* order, each linking to /articles/<id> and showing the record's date, title,
\* description and tags; "Coming Soon" is shown exactly when the list is empty
\* or absent, and never together with an entry.
C12_ListIsProjection ==
    listPage.rendered =>
        LET out == listPage.out
            data == OrEmpty(articles)
        IN  /\ Cardinality({ k \in DOMAIN out : IsEntry(out[k]) }) = Len(data)
            /\ \A k \in DOMAIN data : k \in DOMAIN out /\ EntryOf(out[k], data[k])
            /\ (\E k \in DOMAIN out : IsComingSoon(out[k])) <=> (Len(data) = 0)
            /\ ~ /\ \E k \in DOMAIN out : IsComingSoon(out[k])
                 /\ \E k \in DOMAIN out : IsEntry(out[k])

C12_Witness ==
    /\ listPage.rendered
    /\ Len(OrEmpty(articles)) >= 3
    /\ OrEmpty(articles)[1].id # OrEmpty(articles)[2].id
    /\ OrEmpty(articles)[1].id = OrEmpty(articles)[3].id


-----------------------------------------------------------------------------
(* From the list page to the detail page                                  *)

\* the route app/articles/[id]: params.id is the segment after /articles/
RouteParam(href) == SubSeq(href, Len(ArticlesLinkPrefix) + 1, Len(href))

\* C20: the link the list page renders for a record leads to the detail page
\* of that record: the lookup for the link's id finds the record itself, a
\* request for it is never not-found, and its page shows the record's title,
\* date and image; no record is shadowed by an earlier one with the same id.
C20_LinksReachTheirRecord ==
    listPage.rendered =>
        \A k \in DOMAIN listPage.out :
            LET id == RouteParam(listPage.out[k].href)
            IN  /\ SubSeq(listPage.out[k].href, 1, Len(ArticlesLinkPrefix))
                      = ArticlesLinkPrefix
                /\ \A j \in DOMAIN articles.data :
                      toString(articles.data[j].id) = id => j = k
                /\ \A r \in Requests :
                      (req[r].pc # "idle" /\ req[r].id = id)
                          => /\ req[r].pc # "notfound"
                             /\ req[r].article = articles.data[k]
                             /\ req[r].pc = "rendered"
                                 => /\ Shows(req[r].page, articles.data[k].title)
                                    /\ Shows(req[r].page, articles.data[k].date)
                                    /\ Shows(req[r].page, articles.data[k].image)

\* C20 witness: the list is rendered and the link of its third entry has
\* been followed to a rendered detail page
C20_Witness ==
    /\ listPage.rendered
    /\ Len(listPage.out) = 3
    /\ \E r \in Requests :
        /\ req[r].pc = "rendered"
        /\ req[r].id = RouteParam(listPage.out[3].href)


-----------------------------------------------------------------------------
(* The contact panel: Mailchimp                                           *)

\* the most clicks on the panel's buttons in one behaviour
MaxClicks == 6

\* the buttons of the panel's JSX, by their label
PanelButtons == { "Send Message", "Download Resume" }

\* the click event a button passes to its handler
MouseEvent(button) ==
    [ button |-> button, defaultPrevented |-> FALSE, calls |-> << >> ]

\* window.open(url, target), recorded on the event that caused it
WindowOpen(e, url, target) ==
    [ e EXCEPT !.calls = Append(e.calls,
        [ fn |-> "window.open", url |-> url, target |-> target ]) ]

\* e.preventDefault()
PreventDefault(e) == [ e EXCEPT !.defaultPrevented = TRUE ]

\* a handler that opens the mail address in the same tab and lets the
\* default action through
handleEmailClick_SameTab(e) ==
    WindowOpen(e, "mailto:yangguanggeng960123@gmail.com", "_self")

handleEmailClick(e) ==
    WindowOpen(PreventDefault(e),
               "mailto:yangguanggeng960123@gmail.com", "_blank")

handleResumeClick(e) ==
    WindowOpen(PreventDefault(e),
               "https://drive.google.com/file/d/12ZCxWFK9ZlPVvr2YyOzAFCquCFDaVmfw/view?usp=sharing",
               "_blank")

\* <Button onClick={handleEmailClick}>Send Message</Button> is clicked
ClickSendMessage ==
    /\ Len(opened) < MaxClicks
    /\ opened' = Append(opened, handleEmailClick(MouseEvent("Send Message")))
    /\ UNCHANGED <<configVars, widgetVars, detailVars, headerVars, articles, listPage, staticParams, pageMetadata>>

\* <Button onClick={handleResumeClick}>Download Resume</Button> is clicked
ClickDownloadResume ==
    /\ Len(opened) < MaxClicks
    /\ opened' = Append(opened, handleResumeClick(MouseEvent("Download Resume")))
    /\ UNCHANGED <<configVars, widgetVars, detailVars, headerVars, articles, listPage, staticParams, pageMetadata>>

\* C16: the panel has two actions; every click on "Send Message" prevents
\* the default action and makes one call, window.open of the fixed mailto
\* address; every click on "Download Resume" prevents the default action and
\* makes one call, window.open of the fixed resume URL in a new tab; no click
\* makes any other call, and what a click opens does not depend on the
\* clicks before it.
C16_TwoFixedActions ==
    /\ Cardinality(PanelButtons) = 2
    /\ \A k \in DOMAIN opened :
        /\ opened[k].button \in PanelButtons
        /\ opened[k].defaultPrevented
        /\ Len(opened[k].calls) = 1
        /\ opened[k].calls[1].fn = "window.open"
        /\ opened[k].calls[1].target = "_blank"
        /\ opened[k].button = "Send Message"
            => opened[k].calls[1].url = "mailto:yangguanggeng960123@gmail.com"
        /\ opened[k].button = "Download Resume"
            => opened[k].calls[1].url =
                 "https://drive.google.com/file/d/12ZCxWFK9ZlPVvr2YyOzAFCquCFDaVmfw/view?usp=sharing"

\* C16 witness: both buttons were clicked, each before and after the other
C16_Witness ==
    /\ Len(opened) >= 4
    /\ opened[1].button = "Send Message" /\ opened[2].button = "Download Resume"
    /\ opened[3].button = "Download Resume" /\ opened[4].button = "Send Message"


-----------------------------------------------------------------------------
(* The Header and the clock together                                      *)

\* person.location
person_location == "America/Los_Angeles"

\* the <TimeDisplay> elements in the JSX the Header returns: there is none
HeaderTimeDisplays(raw) == << >>

\* C11 as stated: whenever the Header is rendered, its output holds a
\* TimeDisplay for person.location and such a clock is mounted.
C11_Original ==
    nav # << >>
        => /\ \E k \in DOMAIN HeaderTimeDisplays(pathname) :
                HeaderTimeDisplays(pathname)[k].timeZone = person_location
           /\ \E c \in Clocks :
                clock[c].mounted /\ clock[c].timeZone = person_location


-----------------------------------------------------------------------------
(* The sample StarComponent                                               *)

\* the maxStar prop the widget is mounted with (its default is 5)
maxStar == 3

\* how many clicks on the widget a behaviour follows
MaxStarEvents == 3

\* the values of the score prop the widget is mounted with
ScoreProps == { 0, 2 }

\* a StarComponent that is not mounted
StarUnmounted ==
    [ mounted |-> FALSE, isReadOnly |-> FALSE, hasOnClick |-> FALSE,
      hasOnSubmit |-> FALSE, score |-> 0, currentScore |-> 0,
      events |-> << >>, calls |-> << >> ]

\* a callback prop is called with a value
Call(calls, fn, value) == Append(calls, [ fn |-> fn, arg |-> value ])

\* a handleClick without the read-only guard
handleClick_Unguarded(w, value) ==
    [ w EXCEPT !.currentScore = value,
               !.calls = IF w.hasOnClick THEN Call(w.calls, "onClick", value)
                         ELSE w.calls ]

\* const handleClick = (value) => { if (!isReadOnly) { ... } }
handleClick(w, value) ==
    IF ~w.isReadOnly
    THEN [ w EXCEPT !.currentScore = value,
                    !.calls = IF w.hasOnClick
                              THEN Call(w.calls, "onClick", value)
                              ELSE w.calls ]
    ELSE w

\* const handleSubmit = () => { if (onSubmit) onSubmit(currentScore); }
handleSubmit(w) ==
    IF w.hasOnSubmit
    THEN [ w EXCEPT !.calls = Call(w.calls, "onSubmit", w.currentScore) ]
    ELSE w

\* the widget mounts: useState(score)
StarMount(ro, oc, os, score) ==
    /\ ~star.mounted
    /\ star' = [ StarUnmounted EXCEPT !.mounted = TRUE, !.isReadOnly = ro,
                                      !.hasOnClick = oc, !.hasOnSubmit = os,
                                      !.score = score, !.currentScore = score ]
    /\ UNCHANGED <<configVars, detailVars, headerVars, siteVars, rating, debounced>>

\* the star of value v is clicked: onClick={() => handleClick(value)}
StarClick(v) ==
    /\ star.mounted
    /\ Len(star.events) < MaxStarEvents
    /\ star' = [ handleClick(star, v) EXCEPT
                   !.events = Append(star.events, [ ev |-> "star", v |-> v ]) ]
    /\ UNCHANGED <<configVars, detailVars, headerVars, siteVars, rating, debounced>>

\* the Submit button, rendered when the widget is not read-only, is clicked
StarSubmit ==
    /\ star.mounted
    /\ ~star.isReadOnly
    /\ Len(star.events) < MaxStarEvents
    /\ star' = [ handleSubmit(star) EXCEPT
                   !.events = Append(star.events, [ ev |-> "submit", v |-> 0 ]) ]
    /\ UNCHANGED <<configVars, detailVars, headerVars, siteVars, rating, debounced>>

(* Properties of the sample StarComponent *)

\* the values of the star clicks among the events, in order
RECURSIVE StarValues(_)
StarValues(events) ==
    IF events = << >> THEN << >>
    ELSE (IF events[1].ev = "star"
             THEN << [ fn |-> "onClick", arg |-> events[1].v ] >> ELSE << >>)
         \o StarValues(Tail(events))

\* the calls of one callback among the calls, in order
RECURSIVE CallsOf(_, _)
CallsOf(calls, fn) ==
    IF calls = << >> THEN << >>
    ELSE (IF calls[1].fn = fn THEN << calls[1] >> ELSE << >>)
         \o CallsOf(Tail(calls), fn)

\* C24: when the widget is not read-only every click on star v sets the
\* score to v and calls onClick(v) (when the callback was passed); when it is
\* read-only no click changes the score or calls onClick, and onSubmit is
\* never called because there is no Submit button to click.
C24_ClicksCountUnlessReadOnly ==
    star.mounted =>
        /\ ~star.isReadOnly =>
            /\ CallsOf(star.calls, "onClick") =
                  IF star.hasOnClick THEN StarValues(star.events) ELSE << >>
            /\ star.currentScore =
                  IF StarValues(star.events) = << >> THEN star.score
                  ELSE StarValues(star.events)[Len(StarValues(star.events))].arg
        /\ star.isReadOnly =>
            /\ star.currentScore = star.score
            /\ star.calls = << >>
            /\ \A k \in DOMAIN star.events : star.events[k].ev # "submit"

\* C24 witness: a read-only widget with both callbacks was clicked on two
\* stars and still shows the score it was mounted with
C24_Witness ==
    /\ star.mounted /\ star.isReadOnly
    /\ star.hasOnClick /\ star.hasOnSubmit
    /\ star.score = 2
    /\ Len(star.events) >= 2
    /\ star.events[1].v = 3 /\ star.events[2].v = 1


-----------------------------------------------------------------------------
(* The StarComponent with requests                                        *)

\* how many clicks on the widget a behaviour follows
MaxRatingEvents == 3

\* the scores the server can answer GET /api/getRating with
ServerScores == { 1 }

\* the value null of the error state
NoError == "null"

\* the widget before it mounts: useState(initialScore), useState(false),
\* useState(null), useState(true); no request is in flight
RatingUnmounted ==
    [ mounted |-> FALSE, isReadOnly |-> FALSE, hasOnClick |-> FALSE,
      hasOnSubmit |-> FALSE, currentScore |-> 0,
      loading |-> FALSE, error |-> NoError, fetchLoading |-> TRUE,
      gets |-> 0, posts |-> << >>, events |-> << >>, calls |-> << >> ]

\* what the widget renders: the loading message alone, or the stars with
\* the submit button when it is not read-only
RatingView(w) ==
    IF w.fetchLoading THEN [ loadingMessage |-> TRUE, stars |-> FALSE,
                             button |-> FALSE, disabled |-> FALSE ]
    ELSE [ loadingMessage |-> FALSE, stars |-> TRUE,
           button |-> ~w.isReadOnly, disabled |-> w.loading ]

\* handleSubmit up to its await: onSubmit, setLoading(true), setError(null),
\* axios.post('/api/submitRating', { score: currentScore })
handleSubmitAsync(w) ==
    [ w EXCEPT !.calls = IF w.hasOnSubmit
                         THEN Call(w.calls, "onSubmit", w.currentScore)
                         ELSE w.calls,
               !.loading = TRUE,
               !.error = NoError,
               !.posts = Append(w.posts, [ score |-> w.currentScore ]) ]

\* the widget mounts and its effect runs: setFetchLoading(true), axios.get
RatingMount(ro, os) ==
    /\ ~rating.mounted
    /\ rating' = [ RatingUnmounted EXCEPT !.mounted = TRUE, !.isReadOnly = ro,
                                        !.hasOnClick = TRUE, !.hasOnSubmit = os,
                                        !.fetchLoading = TRUE, !.gets = 1 ]
    /\ UNCHANGED <<configVars, detailVars, headerVars, siteVars, star, debounced>>

\* the GET is answered: setCurrentScore(response.data.score), then finally
GetFulfilled(score) ==
    /\ rating.gets > 0
    /\ rating' = [ rating EXCEPT !.currentScore = score,
                                 !.fetchLoading = FALSE,
                                 !.gets = rating.gets - 1 ]
    /\ UNCHANGED <<configVars, detailVars, headerVars, siteVars, star, debounced>>

\* the GET fails: setError in the catch, then finally
GetRejected ==
    /\ rating.gets > 0
    /\ rating' = [ rating EXCEPT !.error = "get failed",
                                 !.fetchLoading = FALSE,
                                 !.gets = rating.gets - 1 ]
    /\ UNCHANGED <<configVars, detailVars, headerVars, siteVars, star, debounced>>

\* a star click on a widget that renders its stars while the GET is in flight
RatingClick_WhileLoading(v) ==
    /\ rating.mounted
    /\ Len(rating.events) < MaxRatingEvents
    /\ rating' = [ handleClick(rating, v) EXCEPT
                     !.events = Append(rating.events, [ ev |-> "star", v |-> v ]) ]
    /\ UNCHANGED <<configVars, detailVars, headerVars, siteVars, star, debounced>>

\* the star of value v, rendered once fetchLoading is false, is clicked
RatingClick(v) ==
    /\ rating.mounted
    /\ RatingView(rating).stars
    /\ Len(rating.events) < MaxRatingEvents
    /\ rating' = [ handleClick(rating, v) EXCEPT
                     !.events = Append(rating.events, [ ev |-> "star", v |-> v ]) ]
    /\ UNCHANGED <<configVars, detailVars, headerVars, siteVars, star, debounced>>

\* a submit button without disabled={loading}
RatingSubmit_NotDisabled ==
    /\ rating.mounted
    /\ RatingView(rating).button
    /\ Len(rating.events) < MaxRatingEvents
    /\ rating' = [ handleSubmitAsync(rating) EXCEPT
                     !.events = Append(rating.events, [ ev |-> "submit", v |-> 0 ]) ]
    /\ UNCHANGED <<configVars, detailVars, headerVars, siteVars, star, debounced>>

\* the submit button, rendered and not disabled, is clicked
RatingSubmit ==
    /\ rating.mounted
    /\ RatingView(rating).button
    /\ ~RatingView(rating).disabled
    /\ Len(rating.events) < MaxRatingEvents
    /\ rating' = [ handleSubmitAsync(rating) EXCEPT
                     !.events = Append(rating.events, [ ev |-> "submit", v |-> 0 ]) ]
    /\ UNCHANGED <<configVars, detailVars, headerVars, siteVars, star, debounced>>

\* the oldest POST is answered: the finally does setLoading(false)
PostFulfilled ==
    /\ rating.posts # << >>
    /\ rating' = [ rating EXCEPT !.posts = Tail(rating.posts),
                                 !.loading = FALSE ]
    /\ UNCHANGED <<configVars, detailVars, headerVars, siteVars, star, debounced>>

\* the oldest POST fails: setError in the catch, then the finally
PostRejected ==
    /\ rating.posts # << >>
    /\ rating' = [ rating EXCEPT !.posts = Tail(rating.posts),
                                 !.error = "post failed",
                                 !.loading = FALSE ]
    /\ UNCHANGED <<configVars, detailVars, headerVars, siteVars, star, debounced>>

(* Properties of the StarComponent with requests *)

\* C25: the loading flag is true exactly while a POST is in flight, and the
\* rendered submit button is disabled exactly then; at most one POST is in
\* flight; the step in which the POST is answered or fails sets loading to
\* false; and a widget that is loading stops loading in the end.
C25_LoadingWhilePostInFlight ==
    /\ [](/\ rating.loading <=> rating.posts # << >>
          /\ Len(rating.posts) <= 1
          /\ (rating.mounted /\ RatingView(rating).button)
                => (RatingView(rating).disabled <=> rating.posts # << >>))
    /\ [][Len(rating'.posts) < Len(rating.posts) => ~rating'.loading]_vars
    /\ rating.loading ~> ~rating.loading

\* C25 witness: a second submit after a failed one is in flight
C25_Witness ==
    /\ rating.loading
    /\ Len(rating.posts) = 1
    /\ Len(rating.events) >= 2
    /\ rating.events[1].ev = "submit" /\ rating.events[2].ev = "submit"


\* C26: while the initial GET has not been answered the widget renders the
\* loading message alone and no star click or submit has happened; so the
\* step that delivers the fetched score finds no score picked by the user,
\* and a mounted widget that is fetch-loading stops in the end.
C26_NothingBeforeFetchEnds ==
    /\ [](rating.mounted =>
            /\ rating.fetchLoading <=> rating.gets > 0
            /\ rating.gets <= 1
            /\ rating.fetchLoading
                => /\ RatingView(rating).loadingMessage
                   /\ ~RatingView(rating).stars /\ ~RatingView(rating).button
                   /\ rating.events = << >>
                   /\ rating.calls = << >>
                   /\ rating.posts = << >>)
    /\ [][rating'.gets < rating.gets
            => /\ rating.events = << >>
               /\ ~rating'.fetchLoading]_vars
    /\ (rating.mounted /\ rating.fetchLoading) ~> ~rating.fetchLoading

\* C26 witness: the GET was answered, and only then the user picked star 3
\* and submitted it
C26_Witness ==
    /\ rating.mounted /\ ~rating.fetchLoading /\ rating.gets = 0
    /\ rating.currentScore = 3
    /\ Len(rating.events) = 2
    /\ rating.events[1].ev = "star" /\ rating.events[2].ev = "submit"
    /\ rating.posts = << [ score |-> 3 ] >>


-----------------------------------------------------------------------------
(* debounce                                                               *)

\* how many times the debounced function is called
MaxDebounceCalls == 3

\* how many units of time the model follows
MaxDebounceTime == 4

\* the delays debounce is called with, in units of time
Delays == { 1, 2 }

\* the argument lists the debounced function is called with
ArgLists == { << "a" >>, << "b" >> }

\* before debounce(func, delay) is called; let timeout is undefined (0)
NoDebounced ==
    [ made |-> FALSE, delay |-> 0, timeout |-> 0, nextId |-> 1,
      pending |-> {}, now |-> 0, log |-> << >> ]

\* setTimeout(() => func(...args), delay): a new timer with a new id
setTimeout(d, args) ==
    [ d EXCEPT !.pending = d.pending \cup
                 { [ id |-> d.nextId, fireAt |-> d.now + d.delay, args |-> args ] },
               !.timeout = d.nextId,
               !.nextId = d.nextId + 1 ]

\* a clearTimeout that leaves the timer running
clearTimeout_Noop(d, id) == d

\* clearTimeout(timeout): nothing happens for undefined or a timer that fired
clearTimeout(d, id) ==
    [ d EXCEPT !.pending = { tm \in d.pending : tm.id # id } ]

\* const debounced = debounce(func, delay)
Debounce(delay) ==
    /\ ~debounced.made
    /\ debounced' = [ NoDebounced EXCEPT !.made = TRUE, !.delay = delay ]
    /\ UNCHANGED <<configVars, detailVars, headerVars, siteVars, star, rating>>

\* the returned function is called: clearTimeout(timeout), then setTimeout
DebouncedCall(args) ==
    /\ debounced.made
    /\ Len(SelectSeq(debounced.log, LAMBDA e : e.kind = "call")) < MaxDebounceCalls
    /\ debounced' =
         [ setTimeout(clearTimeout(debounced, debounced.timeout), args) EXCEPT
             !.log = Append(debounced.log,
                            [ kind |-> "call", t |-> debounced.now, args |-> args ]) ]
    /\ UNCHANGED <<configVars, detailVars, headerVars, siteVars, star, rating>>

\* a timer whose delay has elapsed fires: func(...args) runs
TimeoutFires(id) ==
    /\ \E tm \in debounced.pending :
          /\ tm.id = id
          /\ debounced.now >= tm.fireAt
          /\ debounced' =
               [ debounced EXCEPT
                   !.pending = debounced.pending \ { tm },
                   !.log = Append(debounced.log,
                                  [ kind |-> "func", t |-> debounced.now,
                                    args |-> tm.args ]) ]
    /\ UNCHANGED <<configVars, detailVars, headerVars, siteVars, star, rating>>

\* a unit of time passes
DebounceTimePasses ==
    /\ debounced.made
    /\ debounced.now < MaxDebounceTime
    /\ debounced' = [ debounced EXCEPT !.now = debounced.now + 1 ]
    /\ UNCHANGED <<configVars, detailVars, headerVars, siteVars, star, rating>>

\* C27: at most one invocation of the wrapped function is pending at any
\* time; every invocation comes right after a call of the debounced function
\* with no other call or invocation in between (so at most once per burst),
\* has that call's arguments, and happens no earlier than delay after it.
C27_DebounceOncePerBurst ==
    /\ Cardinality(debounced.pending) <= 1
    /\ \A tm \in debounced.pending : tm.id = debounced.timeout
    /\ \A k \in DOMAIN debounced.log :
          debounced.log[k].kind = "func"
              => /\ k > 1
                 /\ debounced.log[k - 1].kind = "call"
                 /\ debounced.log[k].args = debounced.log[k - 1].args
                 /\ debounced.log[k].t >= debounced.log[k - 1].t + debounced.delay

\* C27 witness: two calls in one burst, the second with other arguments,
\* were followed by one invocation, and a later call by another
C27_Witness ==
    /\ Len(debounced.log) = 5
    /\ debounced.log[1].kind = "call" /\ debounced.log[1].args = << "a" >>
    /\ debounced.log[2].kind = "call" /\ debounced.log[2].args = << "b" >>
    /\ debounced.log[3].kind = "func" /\ debounced.log[3].args = << "b" >>
    /\ debounced.log[4].kind = "call"
    /\ debounced.log[5].kind = "func"


-----------------------------------------------------------------------------
(* The Header under every routes configuration                            *)

\* the values routes["/"], routes["/about"] and routes["/articles"] can have
RouteConfigs == [ home : BOOLEAN, about : BOOLEAN, articles : BOOLEAN ]

\* further paths the router can report
RoutePaths ==
    Paths \cup { << "/", "a", "b", "o", "u", "t", "/" >>,
                 << "/", "A", "r", "t", "i", "c", "l", "e", "s" >>,
                 << "/", "b", "l", "o", "g" >>,
                 << "/", "a" >> }

\* the navigation entries, by their href
NavEntries == { HomeHref, AboutHref, ArticlesHref }

\* the entry's route is enabled in the configuration
RouteEnabled(href) ==
    \/ href = HomeHref /\ routeConfig.home
    \/ href = AboutHref /\ routeConfig.about
    \/ href = ArticlesHref /\ routeConfig.articles

\* C22: for every current path at most one of the entries Home, About and
\* Articles is highlighted; an entry whose route is disabled is not rendered
\* and so not highlighted; on a path that is not "/", not "/about" and does
\* not begin with "/articles" no entry is highlighted.
C22_AtMostOneEnabledHighlight ==
    LET p == IF pathname = Null THEN << >> ELSE pathname
    IN  /\ Cardinality({ h \in NavEntries : Highlighted(nav, h) }) <= 1
        /\ \A h \in NavEntries :
              /\ Highlighted(nav, h) => RouteEnabled(h)
              /\ ~RouteEnabled(h) => \A k \in DOMAIN nav : nav[k].href # h
        /\ (p # << "/" >> /\ p # << "/", "a", "b", "o", "u", "t" >>
                /\ ~UnderArticles(p))
              => \A k \in DOMAIN nav : ~nav[k].selected

\* C22 witness: on /about with the About route disabled and the others
\* enabled, the rendered entries are Home and Articles and none is highlighted
C22_Witness ==
    /\ pathname = << "/", "a", "b", "o", "u", "t" >>
    /\ routeConfig = [ home |-> TRUE, about |-> FALSE, articles |-> TRUE ]
    /\ Len(nav) = 3
    /\ \A k \in DOMAIN nav : ~nav[k].selected


-----------------------------------------------------------------------------
(* Specifications                                                         *)

Init ==
    /\ fs \in [ TrackedPaths -> FileStates ]
    /\ req = [ r \in Requests |-> IdleReq ]
    /\ routeConfig = routes
    /\ pathname = HomeHref
    /\ nav = Header(HomeHref)
    /\ clock = [ c \in Clocks |-> Unmounted ]
    /\ timers = << >>
    /\ nextTimerId = 0
    /\ now = 0
    /\ articles = content_articles
    /\ listPage = NotRendered
    /\ staticParams = NotRendered
    /\ pageMetadata = NotRendered
    /\ opened = << >>
    /\ star = StarUnmounted
    /\ rating = RatingUnmounted
    /\ debounced = NoDebounced

\* the article detail route
Next ==
    \/ \E r \in Requests, id \in RequestIds : ArticleDetailCall(r, id)
    \/ \E r \in Requests : AwaitReadFile(r)
    \/ \E r \in Requests : Respond(r)
    \/ \E p \in TrackedPaths, s \in FileStates : FsChange(p, s)

Spec == Init /\ [][Next]_vars

\* the Header and the clock, over one file system
HeaderInit ==
    /\ Init
    /\ fs = [ p \in TrackedPaths |-> Missing ]

HeaderNext ==
    \/ \E raw \in Paths \cup { Null } : Navigate(raw)
    \/ \E c \in Clocks, tz \in TimeZones, l \in Locales : Mount(c, tz, l)
    \/ \E c \in Clocks, tz \in TimeZones, l \in Locales : SetProps(c, tz, l)
    \/ \E c \in Clocks : Unmount(c)
    \/ TimePasses
    \/ \E id \in 1..MaxTimers : Tick(id)

SpecHeader == HeaderInit /\ [][HeaderNext]_vars

\* the variables the list page does not read
IdleSite ==
    /\ fs = [ p \in TrackedPaths |-> Missing ]
    /\ req = [ r \in Requests |-> IdleReq ]
    /\ routeConfig = routes
    /\ pathname = HomeHref
    /\ nav = Header(HomeHref)
    /\ clock = [ c \in Clocks |-> Unmounted ]
    /\ timers = << >>
    /\ nextTimerId = 0
    /\ now = 0
    /\ staticParams = NotRendered
    /\ pageMetadata = NotRendered
    /\ opened = << >>
    /\ star = StarUnmounted
    /\ rating = RatingUnmounted
    /\ debounced = NoDebounced

ListInit ==
    /\ IdleSite
    /\ articles \in ArticlesObjects
    /\ listPage = NotRendered

ListNext == RenderArticles

SpecList == ListInit /\ [][ListNext]_vars
\* the whole site over the article files of the repository
ContentInit ==
    /\ Init
    /\ fs = RepoFs

ContentNext ==
    \/ \E r \in Requests, id \in RequestIds : ArticleDetailCall(r, id)
    \/ \E r \in Requests : AwaitReadFile(r)
    \/ \E r \in Requests : Respond(r)
    \/ RenderArticles
    \/ GenerateStaticParams
    \/ \E id \in RequestIds : GenerateMetadata(id)

SpecContent == ContentInit /\ [][ContentNext]_vars
\* detail requests in flight together over a file system that stays as it is
StaticNext ==
    \/ \E r \in Requests, id \in RequestIds : ArticleDetailCall(r, id)
    \/ \E r \in Requests : AwaitReadFile(r)
    \/ \E r \in Requests : Respond(r)

SpecStatic == Init /\ [][StaticNext]_vars
\* clicks on the contact panel
PanelNext ==
    \/ ClickSendMessage
    \/ ClickDownloadResume

SpecPanel == ContentInit /\ [][PanelNext]_vars
\* the detail route with the promise of every read settling in the end
SpecLive == Spec /\ \A r \in Requests : WF_vars(AwaitReadFile(r))
\* the Header under each routes configuration
RoutesInit ==
    /\ fs = RepoFs
    /\ req = [ r \in Requests |-> IdleReq ]
    /\ routeConfig \in RouteConfigs
    /\ pathname = HomeHref
    /\ nav = Header(HomeHref)
    /\ clock = [ c \in Clocks |-> Unmounted ]
    /\ timers = << >>
    /\ nextTimerId = 0
    /\ now = 0
    /\ articles = content_articles
    /\ listPage = NotRendered
    /\ staticParams = NotRendered
    /\ pageMetadata = NotRendered
    /\ opened = << >>
    /\ star = StarUnmounted
    /\ rating = RatingUnmounted
    /\ debounced = NoDebounced

RoutesNext == \E raw \in RoutePaths \cup { Null } : Navigate(raw)

SpecRoutes == RoutesInit /\ [][RoutesNext]_vars
\* the sample StarComponent under clicks
StarNext ==
    \/ \E ro, oc, os \in BOOLEAN, score \in ScoreProps : StarMount(ro, oc, os, score)
    \/ \E v \in 1..maxStar : StarClick(v)
    \/ StarSubmit

SpecStar == ContentInit /\ [][StarNext]_vars
\* the StarComponent with requests; every request is answered or fails
RatingNext ==
    \/ \E ro, os \in BOOLEAN : RatingMount(ro, os)
    \/ \E score \in ServerScores : GetFulfilled(score)
    \/ GetRejected
    \/ \E v \in 1..maxStar : RatingClick(v)
    \/ RatingSubmit
    \/ PostFulfilled
    \/ PostRejected

RequestSettles ==
    \/ \E score \in ServerScores : GetFulfilled(score)
    \/ GetRejected
    \/ PostFulfilled
    \/ PostRejected

SpecRating == ContentInit /\ [][RatingNext]_vars /\ WF_vars(RequestSettles)
\* one debounced function, its calls and its timers
DebounceNext ==
    \/ \E delay \in Delays : Debounce(delay)
    \/ \E args \in ArgLists : DebouncedCall(args)
    \/ \E id \in 1..MaxDebounceCalls : TimeoutFires(id)
    \/ DebounceTimePasses

SpecDebounce == ContentInit /\ [][DebounceNext]_vars

=========================================================================
